---- MODULE Spec2Model ----
(***************************************************************************)
(* The `dbctl cluster create` command of internal/dbctl/cmd/cluster/       *)
(* create.go: the CreateOptions callbacks Complete, Validate and PreCreate *)
(* and the helpers setMonitor, setBackup and setEnableAllLogs.             *)
(*                                                                         *)
(* Open documents (map[string]interface{}) are records in which an absent  *)
(* key is the empty sequence and a present one a singleton sequence, or a  *)
(* shape tag where the Go code type-asserts the value.                     *)
(***************************************************************************)
EXTENDS Integers, Sequences, FiniteSets, TLC

VARIABLES
    o,              \* the CreateOptions receiver
    flags,          \* the required flags given on the command line
    pc,             \* the position of the command's run
    componentByte,  \* Complete's local componentByte
    components,     \* Complete's local components / the list handed to a helper
    err,            \* the error returned by the stage that ran last
    obj,            \* the *unstructured.Unstructured handed to PreCreate
    c,              \* PreCreate's local c (*dbaasv1alpha1.Cluster)
    cd,             \* PreCreate's local cd (*dbaasv1alpha1.ClusterDefinition)
    calls,          \* history: the remote lookups performed, in order
    stages,         \* history: the stages entered, in order
    hist            \* history: the values on entry of the operation under check

vars == <<o, flags, pc, componentByte, components, err, obj, c, cd, calls, stages, hist>>

----------------------------------------------------------------------------
(* Bounds of the model *)

MaxComponents == 2

MaxTemplates == 2

MaxDefs == 2

----------------------------------------------------------------------------
(* Values *)

SeqsUpTo(S, n) == UNION {[1..k -> S] : k \in 0..n}

NoErr == [kind |-> "nil", msg |-> <<>>]

Errorf(kind, msg) == [kind |-> kind, msg |-> msg]

\* a nil []byte
NoBytes == [format |-> "none", shape |-> "null", items |-> <<>>]

\* a nil []map[string]interface{} and a non-nil one
NilComponents == [isNil |-> TRUE, items |-> <<>>]

ComponentList(items) == [isNil |-> FALSE, items |-> items]

monitorKey == "monitor"

\* the descriptor setBackup builds
DataSource(backup) == [name |-> backup, kind |-> "VolumeSnapshot", apiGroup |-> "snapshot.storage.k8s.io"]

\* a dataSource an input document may already carry
OldDataSource == [name |-> "old", kind |-> "PersistentVolumeClaim", apiGroup |-> ""]

\* one entry of volumeClaimTemplates: something that is no map, or a map whose
\* "spec" key is absent, holds something that is no map, or holds a map
Templates ==
    {[shape |-> "scalar", spec |-> "absent", dataSource |-> <<>>],
     [shape |-> "map", spec |-> "absent", dataSource |-> <<>>],
     [shape |-> "map", spec |-> "scalar", dataSource |-> <<>>],
     [shape |-> "map", spec |-> "map", dataSource |-> <<OldDataSource>>]}

\* the value under "volumeClaimTemplates": missing (or null), no list, or a list
VctMissing == [shape |-> "missing", items |-> <<>>]

VctScalar == [shape |-> "scalar", items |-> <<>>]

VctList(items) == [shape |-> "list", items |-> items]

Component(type, monitor, enabledLogs, vct) ==
    [type |-> type, monitor |-> monitor, enabledLogs |-> enabledLogs, volumeClaimTemplates |-> vct]

----------------------------------------------------------------------------
(* setMonitor *)

setMonitor_SkipFirst(monitor, comps) ==
    IF comps.isNil THEN comps
    ELSE ComponentList([i \in 1..Len(comps.items) |->
            IF i = 1 THEN comps.items[i]
            ELSE [comps.items[i] EXCEPT !.monitor = <<monitor>>]])

setMonitor(monitor, comps) ==
    IF comps.isNil THEN comps
    ELSE ComponentList([i \in 1..Len(comps.items) |->
            [comps.items[i] EXCEPT !.monitor = <<monitor>>]])

----------------------------------------------------------------------------
(* setBackup *)

\* what o.Client.Resource(gvr).Namespace(ns).Get can answer for a backup job:
\* an error, or an object whose spec.backupType is absent or a string
BackupJobs == {[backupType |-> <<>>], [backupType |-> <<"snapshot">>],
               [backupType |-> <<"full">>], [backupType |-> <<"Snapshot">>]}

GetFailed == Errorf("client.Get", <<"not found">>)

BackupJobReplies == {[err |-> GetFailed, object |-> [backupType |-> <<>>]]}
                    \cup {[err |-> NoErr, object |-> j] : j \in BackupJobs}

\* unstructured.NestedString(obj, "spec", "backupType"): "" when the field is absent
NestedString(object) == IF object.backupType = <<>> THEN "" ELSE object.backupType[1]

\* unstructured.SetNestedField(templateMap, dataSource, "spec", "dataSource"), whose
\* error is discarded: it creates "spec" when absent, and writes nothing when "spec"
\* holds something that is no map
SetNestedField(templateMap, dataSource) ==
    CASE templateMap.spec = "absent" -> [templateMap EXCEPT !.spec = "map", !.dataSource = <<dataSource>>]
      [] templateMap.spec = "map" -> [templateMap EXCEPT !.dataSource = <<dataSource>>]
      [] OTHER -> templateMap

\* the inner loop: templateMap := t.(map[string]interface{}) panics on an entry
\* that is no map, after the entries before it have been rewritten
RECURSIVE RangeTemplates(_, _, _)
RangeTemplates(templates, j, dataSource) ==
    IF j > Len(templates) THEN [items |-> templates, panicked |-> FALSE]
    ELSE IF templates[j].shape # "map" THEN [items |-> templates, panicked |-> TRUE]
    ELSE RangeTemplates([templates EXCEPT ![j] = SetNestedField(templates[j], dataSource)],
                        j + 1, dataSource)

\* the outer loop: component["volumeClaimTemplates"].([]interface{}) panics on a
\* component whose field is missing or no list, after the components before it
\* have been rewritten
RECURSIVE RangeComponents(_, _, _)
RangeComponents(items, i, dataSource) ==
    IF i > Len(items) THEN [items |-> items, panicked |-> FALSE]
    ELSE LET vct == items[i].volumeClaimTemplates
         IN  IF vct.shape # "list" THEN [items |-> items, panicked |-> TRUE]
             ELSE LET r == RangeTemplates(vct.items, 1, dataSource)
                      upd == [items EXCEPT ![i].volumeClaimTemplates = VctList(r.items)]
                  IN  IF r.panicked THEN [items |-> upd, panicked |-> TRUE]
                      ELSE RangeComponents(upd, i + 1, dataSource)

BackupResult(comps, e, panicked, looked) ==
    [components |-> comps, err |-> e, panicked |-> panicked, looked |-> looked]

BackupTypeError(backupType) ==
    Errorf("fmt.Errorf", <<"only support snapshot backup, specified backup type is '", backupType, "'">>)

\* setBackup with the templates rewritten before the backup type is looked at
setBackup_WriteThenCheck(opts, comps, reply) ==
    IF opts.Backup = "" THEN BackupResult(comps, NoErr, FALSE, FALSE)
    ELSE IF comps.isNil THEN BackupResult(comps, NoErr, FALSE, FALSE)
    ELSE IF reply.err # NoErr THEN BackupResult(comps, reply.err, FALSE, TRUE)
    ELSE LET backupType == NestedString(reply.object)
             r == RangeComponents(comps.items, 1, DataSource(opts.Backup))
         IN  IF r.panicked THEN BackupResult(ComponentList(r.items), NoErr, TRUE, TRUE)
             ELSE IF backupType # "snapshot"
             THEN BackupResult(ComponentList(r.items), BackupTypeError(backupType), FALSE, TRUE)
             ELSE BackupResult(ComponentList(r.items), NoErr, FALSE, TRUE)

\* setBackup(o, components), reply being what the Get of the backup job answers
setBackup(opts, comps, reply) ==
    IF opts.Backup = "" THEN BackupResult(comps, NoErr, FALSE, FALSE)
    ELSE IF comps.isNil THEN BackupResult(comps, NoErr, FALSE, FALSE)
    ELSE IF reply.err # NoErr THEN BackupResult(comps, reply.err, FALSE, TRUE)
    ELSE LET backupType == NestedString(reply.object)
         IN  IF backupType # "snapshot"
             THEN BackupResult(comps, BackupTypeError(backupType), FALSE, TRUE)
             ELSE LET r == RangeComponents(comps.items, 1, DataSource(opts.Backup))
                  IN  BackupResult(ComponentList(r.items), NoErr, r.panicked, TRUE)

----------------------------------------------------------------------------
(* Validate *)

MissingName == Errorf("fmt.Errorf", <<"missing cluster name">>)

MissingTerminationPolicy ==
    Errorf("fmt.Errorf", <<"a valid termination policy is needed, use --termination-policy to specify one of: DoNotTerminate, Halt, Delete, WipeOut">>)

MissingComponents ==
    Errorf("fmt.Errorf", <<"a valid component local file path, URL, or stdin is needed">>)

\* Validate without the check of the termination policy
Validate_NoPolicyCheck(opts) ==
    IF opts.Name = "" THEN MissingName
    ELSE IF Len(opts.ComponentsFilePath) = 0 THEN MissingComponents
    ELSE NoErr

Validate(opts) ==
    IF opts.Name = "" THEN MissingName
    ELSE IF opts.TerminationPolicy = "" THEN MissingTerminationPolicy
    ELSE IF Len(opts.ComponentsFilePath) = 0 THEN MissingComponents
    ELSE NoErr

\* the values terminationPolicyCompletionFunc offers
TerminationPolicies == {"DoNotTerminate", "Halt", "Delete", "WipeOut"}

----------------------------------------------------------------------------
(* PreCreate and setEnableAllLogs *)

\* the case folding of the model's component type names
Fold(s) == IF s = "T1" THEN "t1" ELSE s

\* a comparison that minds the letter case
EqualFold_CaseSensitive(s, t) == s = t

\* strings.EqualFold
EqualFold(s, t) == Fold(s) = Fold(t)

LogConfig(name) == [name |-> name, filePathPattern |-> "/var/log"]

LogConfigLists == {<<LogConfig("error"), LogConfig("slow")>>, <<LogConfig("slow")>>}

\* the entries of a cluster definition's spec.components
ComponentDefs == {[typeName |-> t, logConfigs |-> l] : t \in {"t1", "T1", "t2"}, l \in LogConfigLists}

ClusterDefs == SeqsUpTo(ComponentDefs, MaxDefs)

ConvertFailed == Errorf("runtime.FromUnstructured", <<"cannot convert">>)

EncodeFailed == Errorf("runtime.ToUnstructured", <<"cannot convert">>)

\* what the Get of the cluster definition can answer: an error, an object the
\* converter rejects, or a cluster definition
ClusterDefReplies ==
    {[err |-> GetFailed, convertible |-> FALSE, components |-> <<>>],
     [err |-> NoErr, convertible |-> FALSE, components |-> <<>>]}
    \cup {[err |-> NoErr, convertible |-> TRUE, components |-> d] : d \in ClusterDefs}

\* runtime.DefaultUnstructuredConverter.FromUnstructured(obj.Object, c): the typed
\* Cluster keeps the fields it declares and drops the others
FromUnstructured(object) ==
    [clusterDefRef |-> object.clusterDefRef, components |-> object.components]

\* runtime.DefaultUnstructuredConverter.ToUnstructured(c)
ToUnstructured(cluster) ==
    [clusterDefRef |-> cluster.clusterDefRef, components |-> cluster.components,
     unknownFields |-> FALSE, convertible |-> TRUE]

\* the inner loop of setEnableAllLogs: every entry of the definition is compared,
\* and each match assigns EnabledLogs again
RECURSIVE RangeDefs(_, _, _, _)
RangeDefs(enabledLogs, type, defs, k) ==
    IF k > Len(defs) THEN enabledLogs
    ELSE RangeDefs(IF EqualFold(type, defs[k].typeName)
                   THEN [n \in 1..Len(defs[k].logConfigs) |-> defs[k].logConfigs[n].name]
                   ELSE enabledLogs,
                   type, defs, k + 1)

setEnableAllLogs(cluster, defs) ==
    [cluster EXCEPT !.components =
        [idx \in 1..Len(cluster.components) |->
            [cluster.components[idx] EXCEPT
                !.enabledLogs = RangeDefs(@, cluster.components[idx].type, defs, 1)]]]

\* the order in which the command's run calls the stages of the request
RunOrder == <<"Complete", "Validate", "Materialize", "PreCreate", "Submit">>

After(stage) == RunOrder[(CHOOSE i \in 1..Len(RunOrder) : RunOrder[i] = stage) + 1]

----------------------------------------------------------------------------
(* Complete: the source, and its parsing *)

\* the component records of the documents the run reads
SourceComponents ==
    {Component("T1", <<>>, <<"old">>,
               VctList(<<[shape |-> "map", spec |-> "absent", dataSource |-> <<>>]>>)),
     Component("t3", <<FALSE>>, <<>>, VctMissing)}

\* what a source can hold: bytes that are no YAML, YAML that is no list, the YAML
\* null (an empty document), a list of component records, or a list of component
\* records that also holds an entry that is no map (items are its records)
SourceContents ==
    {[format |-> "yaml", shape |-> sh, items |-> <<>>] : sh \in {"malformed", "scalar", "null"}}
    \cup {[format |-> "yaml", shape |-> sh, items |-> cs] :
            sh \in {"list", "badlist"}, cs \in SeqsUpTo(SourceComponents, MaxComponents)}

\* the switch of multipleSourceComponents on fileName
SourceKind(fileName) ==
    IF fileName = <<"-">> THEN "stdin"
    ELSE IF fileName[1] = "http://" \/ fileName[1] = "https://" THEN "url"
    ELSE "file"

ReadFailed(fileName) ==
    Errorf(CASE SourceKind(fileName) = "stdin" -> "io.ReadAll"
             [] SourceKind(fileName) = "url" -> "http.Get"
             [] OTHER -> "os.Open", <<"read failed">>)

\* multipleSourceComponents(fileName, streams), content being what the source holds
\* and readable whether it can be opened and read to its end
multipleSourceComponents(fileName, content, readable) ==
    IF readable THEN [data |-> content, err |-> NoErr]
    ELSE [data |-> NoBytes, err |-> ReadFailed(fileName)]

\* yaml.YAMLToJSON
YAMLToJSON(bytes) ==
    IF bytes.shape = "malformed"
    THEN [data |-> NoBytes, err |-> Errorf("yaml.YAMLToJSON", <<"yaml: cannot parse">>)]
    ELSE [data |-> [bytes EXCEPT !.format = "json"], err |-> NoErr]

UnmarshalTypeError ==
    Errorf("json.Unmarshal", <<"cannot unmarshal into []map[string]interface {}">>)

\* json.Unmarshal(componentByte, &components): null makes the slice nil; an entry
\* that is no map is an error, reported after the records have been decoded
Unmarshal(bytes, comps) ==
    CASE bytes.shape = "list" -> [components |-> ComponentList(bytes.items), err |-> NoErr]
      [] bytes.shape = "null" -> [components |-> NilComponents, err |-> NoErr]
      [] bytes.shape = "badlist" ->
            [components |-> ComponentList(bytes.items), err |-> UnmarshalTypeError]
      [] OTHER -> [components |-> comps, err |-> UnmarshalTypeError]

\* the flags NewCreateCmd marks required
RequiredFlags == {"termination-policy", "components"}

RequiredFlagError == Errorf("cobra", <<"required flag(s) not set">>)

----------------------------------------------------------------------------
(* The state a run starts from *)

DefaultClusterDef == "apecloud-wesql"

NoObj == [clusterDefRef |-> "", components |-> <<>>, unknownFields |-> FALSE, convertible |-> TRUE]

NoCluster == [clusterDefRef |-> "", components |-> <<>>]

NoReply == [err |-> NoErr, object |-> [backupType |-> <<>>]]

NoHist == [components0 |-> NilComponents, obj0 |-> NoObj, lastMonitor |-> <<>>,
           reply |-> NoReply, panicked |-> FALSE]

Options(name, policy, path, backup, monitor, logs) ==
    [Name |-> name, TerminationPolicy |-> policy, ComponentsFilePath |-> path,
     Backup |-> backup, Monitor |-> monitor, EnableAllLogs |-> logs,
     Components |-> NilComponents]

ZeroOptions == Options("", "", <<>>, "", FALSE, FALSE)

----------------------------------------------------------------------------
(* setMonitor called on its own, any number of times *)

SetMonitorInputs ==
    {NilComponents} \cup
    {ComponentList(cs) : cs \in SeqsUpTo(
        {Component("t1", m, <<"error">>, v) :
            m \in {<<>>, <<TRUE>>, <<FALSE>>}, v \in {VctMissing, VctList(<<>>)}},
        MaxComponents)}

InitSetMonitor ==
    /\ components \in SetMonitorInputs
    /\ o = ZeroOptions
    /\ flags = {}
    /\ pc = "setMonitor"
    /\ componentByte = NoBytes
    /\ err = NoErr
    /\ obj = NoObj
    /\ c = NoCluster
    /\ cd = <<>>
    /\ calls = <<>>
    /\ stages = <<>>
    /\ hist = [NoHist EXCEPT !.components0 = components]

SetMonitorCall ==
    /\ pc = "setMonitor"
    /\ \E monitor \in BOOLEAN :
        /\ components' = setMonitor(monitor, components)
        /\ hist' = [hist EXCEPT !.lastMonitor = <<monitor>>]
    /\ UNCHANGED <<o, flags, pc, componentByte, err, obj, c, cd, calls, stages>>

NextSetMonitor == SetMonitorCall

SpecSetMonitor == InitSetMonitor /\ [][NextSetMonitor]_vars

----------------------------------------------------------------------------
(* setBackup called on its own *)

\* the lists of at most n components that hold at most budget templates in all
RECURSIVE ListsWithTemplates(_, _)
ListsWithTemplates(n, budget) ==
    IF n = 0 THEN {<<>>}
    ELSE {<<>>} \cup UNION {
            {<<Component("t1", <<TRUE>>, <<"error">>, v)>> \o rest :
                rest \in ListsWithTemplates(n - 1, budget - Len(v.items))} :
            v \in {VctMissing, VctScalar} \cup {VctList(ts) : ts \in SeqsUpTo(Templates, budget)}}

SetBackupInputs ==
    {NilComponents} \cup {ComponentList(cs) : cs \in ListsWithTemplates(MaxComponents, MaxTemplates)}

InitSetBackup ==
    /\ components \in SetBackupInputs
    /\ \E backup \in {"", "snap1", "snap2"} : o = [ZeroOptions EXCEPT !.Backup = backup]
    /\ flags = {}
    /\ pc = "setBackup"
    /\ componentByte = NoBytes
    /\ err = NoErr
    /\ obj = NoObj
    /\ c = NoCluster
    /\ cd = <<>>
    /\ calls = <<>>
    /\ stages = <<>>
    /\ hist = [NoHist EXCEPT !.components0 = components]

SetBackupCall ==
    /\ pc = "setBackup"
    /\ \E reply \in BackupJobReplies :
        LET r == setBackup(o, components, reply)
        IN  /\ components' = r.components
            /\ err' = r.err
            /\ pc' = IF r.panicked THEN "panic" ELSE "returned"
            /\ calls' = IF r.looked THEN Append(calls, "backupjobs") ELSE calls
            /\ hist' = [hist EXCEPT !.reply = IF r.looked THEN reply ELSE NoReply,
                                    !.panicked = r.panicked]
    /\ UNCHANGED <<o, flags, componentByte, obj, c, cd, stages>>

NextSetBackup == SetBackupCall

SpecSetBackup == InitSetBackup /\ [][NextSetBackup]_vars

----------------------------------------------------------------------------
(* PreCreate *)

\* PreCreate going on to the conversion and the lookup whatever the flag says
PreCreateDisabled_GoesOn ==
    /\ pc = "PreCreate"
    /\ ~o.EnableAllLogs
    /\ stages' = Append(stages, "PreCreate")
    /\ c' = FromUnstructured(obj)
    /\ err' = NoErr
    /\ pc' = "PreCreate.Get"
    /\ UNCHANGED <<o, flags, componentByte, components, obj, cd, calls, hist>>

\* if !o.EnableAllLogs { return nil }
PreCreateDisabled ==
    /\ pc = "PreCreate"
    /\ ~o.EnableAllLogs
    /\ stages' = Append(stages, "PreCreate")
    /\ err' = NoErr
    /\ pc' = After("PreCreate")
    /\ UNCHANGED <<o, flags, componentByte, components, obj, c, cd, calls, hist>>

\* FromUnstructured(obj.Object, c)
PreCreateConvert ==
    /\ pc = "PreCreate"
    /\ o.EnableAllLogs
    /\ stages' = Append(stages, "PreCreate")
    /\ IF obj.convertible
       THEN /\ c' = FromUnstructured(obj)
            /\ err' = NoErr
            /\ pc' = "PreCreate.Get"
       ELSE /\ err' = ConvertFailed
            /\ pc' = "done"
            /\ c' = c
    /\ UNCHANGED <<o, flags, componentByte, components, obj, cd, calls, hist>>

\* the Get of the cluster definition and FromUnstructured(res.Object, cd)
PreCreateGet ==
    /\ pc = "PreCreate.Get"
    /\ calls' = Append(calls, "clusterdefinitions")
    /\ \E res \in ClusterDefReplies :
        IF res.err # NoErr
        THEN err' = res.err /\ pc' = "done" /\ cd' = cd
        ELSE IF ~res.convertible
        THEN err' = ConvertFailed /\ pc' = "done" /\ cd' = cd
        ELSE err' = NoErr /\ pc' = "PreCreate.Set" /\ cd' = res.components
    /\ UNCHANGED <<o, flags, componentByte, components, obj, c, stages, hist>>

\* PreCreate replacing the content before it looks at ToUnstructured's error
PreCreateSet_ReplacesFirst ==
    /\ pc = "PreCreate.Set"
    /\ c' = setEnableAllLogs(c, cd)
    /\ obj' = ToUnstructured(c')
    /\ \E encoded \in BOOLEAN :
        IF encoded
        THEN err' = NoErr /\ pc' = After("PreCreate")
        ELSE err' = EncodeFailed /\ pc' = "done"
    /\ UNCHANGED <<o, flags, componentByte, components, cd, calls, stages, hist>>

\* setEnableAllLogs(c, cd), ToUnstructured(c) and obj.SetUnstructuredContent(data)
PreCreateSet ==
    /\ pc = "PreCreate.Set"
    /\ c' = setEnableAllLogs(c, cd)
    /\ \E encoded \in BOOLEAN :
        IF encoded
        THEN obj' = ToUnstructured(c') /\ err' = NoErr /\ pc' = After("PreCreate")
        ELSE obj' = obj /\ err' = EncodeFailed /\ pc' = "done"
    /\ UNCHANGED <<o, flags, componentByte, components, cd, calls, stages, hist>>

PreCreateDocs ==
    {[clusterDefRef |-> DefaultClusterDef, components |-> cs, unknownFields |-> u, convertible |-> k] :
        cs \in SeqsUpTo({Component(t, <<FALSE>>, l, VctList(<<>>)) :
                            t \in {"T1", "t3"}, l \in {<<>>, <<"old">>}}, MaxComponents),
        u \in BOOLEAN, k \in BOOLEAN}

InitPreCreate ==
    /\ obj \in PreCreateDocs
    /\ \E logs \in BOOLEAN : o = [ZeroOptions EXCEPT !.EnableAllLogs = logs]
    /\ flags = {}
    /\ pc = "PreCreate"
    /\ componentByte = NoBytes
    /\ components = NilComponents
    /\ err = NoErr
    /\ c = NoCluster
    /\ cd = <<>>
    /\ calls = <<>>
    /\ stages = <<>>
    /\ hist = [NoHist EXCEPT !.obj0 = obj]

NextPreCreate == PreCreateDisabled \/ PreCreateConvert \/ PreCreateGet \/ PreCreateSet

SpecPreCreate == InitPreCreate /\ [][NextPreCreate]_vars

----------------------------------------------------------------------------
(* The run of the command *)

\* the required-flag check made before the command's Run
CheckRequiredFlags ==
    /\ pc = "start"
    /\ stages' = Append(stages, "flags")
    /\ IF RequiredFlags \subseteq flags
       THEN err' = NoErr /\ pc' = RunOrder[1]
       ELSE err' = RequiredFlagError /\ pc' = "done"
    /\ UNCHANGED <<o, flags, componentByte, components, obj, c, cd, calls, hist>>

\* Complete, with a components source: multipleSourceComponents
CompleteLoad ==
    /\ pc = "Complete"
    /\ Len(o.ComponentsFilePath) > 0
    /\ stages' = Append(stages, "load")
    /\ \E content \in SourceContents, readable \in BOOLEAN :
        LET r == multipleSourceComponents(o.ComponentsFilePath, content, readable)
        IN  /\ componentByte' = r.data
            /\ err' = r.err
            /\ pc' = IF r.err = NoErr THEN "Complete.YAMLToJSON" ELSE "done"
    /\ components' = o.Components
    /\ UNCHANGED <<o, flags, obj, c, cd, calls, hist>>

\* Complete, without a components source
CompleteNoSource ==
    /\ pc = "Complete"
    /\ Len(o.ComponentsFilePath) = 0
    /\ components' = o.Components
    /\ pc' = "Complete.setMonitor"
    /\ UNCHANGED <<o, flags, componentByte, err, obj, c, cd, calls, stages, hist>>

CompleteYAMLToJSON ==
    /\ pc = "Complete.YAMLToJSON"
    /\ stages' = Append(stages, "YAMLToJSON")
    /\ LET r == YAMLToJSON(componentByte)
       IN  /\ componentByte' = r.data
           /\ err' = r.err
           /\ pc' = IF r.err = NoErr THEN "Complete.Unmarshal" ELSE "done"
    /\ UNCHANGED <<o, flags, components, obj, c, cd, calls, hist>>

CompleteUnmarshal ==
    /\ pc = "Complete.Unmarshal"
    /\ stages' = Append(stages, "Unmarshal")
    /\ LET r == Unmarshal(componentByte, components)
       IN  /\ components' = r.components
           /\ err' = r.err
           /\ pc' = IF r.err = NoErr THEN "Complete.setMonitor" ELSE "done"
    /\ UNCHANGED <<o, flags, componentByte, obj, c, cd, calls, hist>>

CompleteSetMonitor ==
    /\ pc = "Complete.setMonitor"
    /\ stages' = Append(stages, "setMonitor")
    /\ components' = setMonitor(o.Monitor, components)
    /\ hist' = [hist EXCEPT !.components0 = components']
    /\ pc' = "Complete.setBackup"
    /\ UNCHANGED <<o, flags, componentByte, err, obj, c, cd, calls>>

\* Complete assigning o.Components before it looks at setBackup's error
CompleteSetBackup_CommitsFirst ==
    /\ pc = "Complete.setBackup"
    /\ stages' = Append(stages, "setBackup")
    /\ \E reply \in BackupJobReplies :
        LET r == setBackup(o, components, reply)
        IN  /\ components' = r.components
            /\ o' = [o EXCEPT !.Components = r.components]
            /\ err' = r.err
            /\ pc' = IF r.panicked THEN "panic"
                     ELSE IF r.err = NoErr THEN "Complete.commit" ELSE "done"
            /\ calls' = IF r.looked THEN Append(calls, "backupjobs") ELSE calls
            /\ hist' = [hist EXCEPT !.reply = IF r.looked THEN reply ELSE NoReply,
                                    !.panicked = r.panicked]
    /\ UNCHANGED <<flags, componentByte, obj, c, cd>>

CompleteSetBackup ==
    /\ pc = "Complete.setBackup"
    /\ stages' = Append(stages, "setBackup")
    /\ \E reply \in BackupJobReplies :
        LET r == setBackup(o, components, reply)
        IN  /\ components' = r.components
            /\ err' = r.err
            /\ pc' = IF r.panicked THEN "panic"
                     ELSE IF r.err = NoErr THEN "Complete.commit" ELSE "done"
            /\ calls' = IF r.looked THEN Append(calls, "backupjobs") ELSE calls
            /\ hist' = [hist EXCEPT !.reply = IF r.looked THEN reply ELSE NoReply,
                                    !.panicked = r.panicked]
    /\ UNCHANGED <<o, flags, componentByte, obj, c, cd>>

\* o.Components = components; return nil
CompleteCommit ==
    /\ pc = "Complete.commit"
    /\ stages' = Append(stages, "commit")
    /\ o' = [o EXCEPT !.Components = components]
    /\ err' = NoErr
    /\ pc' = After("Complete")
    /\ UNCHANGED <<flags, componentByte, components, obj, c, cd, calls, hist>>

ValidateStep ==
    /\ pc = "Validate"
    /\ stages' = Append(stages, "Validate")
    /\ err' = Validate(o)
    /\ pc' = IF err' = NoErr THEN After("Validate") ELSE "done"
    /\ UNCHANGED <<o, flags, componentByte, components, obj, c, cd, calls, hist>>

\* the template stage: the options become the resource document
Materialize ==
    /\ pc = "Materialize"
    /\ stages' = Append(stages, "Materialize")
    /\ \E u \in BOOLEAN, k \in BOOLEAN :
        obj' = [clusterDefRef |-> DefaultClusterDef, components |-> o.Components.items,
                unknownFields |-> u, convertible |-> k]
    /\ hist' = [hist EXCEPT !.obj0 = obj']
    /\ pc' = After("Materialize")
    /\ UNCHANGED <<o, flags, componentByte, components, err, c, cd, calls>>

\* the document is handed to the control plane
Submit ==
    /\ pc = "Submit"
    /\ stages' = Append(stages, "Submit")
    /\ pc' = "Submitted"
    /\ UNCHANGED <<o, flags, componentByte, components, err, obj, c, cd, calls, hist>>

FilePaths == {<<>>, <<"-">>, <<"https://", "kubeblocks.io/c.yaml">>, <<"component.yaml">>}

Requests ==
    {[flags |-> f, o |-> Options(name, policy, path, backup, monitor, logs)] :
        f \in SUBSET RequiredFlags, name \in {"", "mycluster"},
        policy \in TerminationPolicies \cup {"", "DoNotDelete"}, path \in FilePaths,
        backup \in {"", "snap1"}, monitor \in BOOLEAN, logs \in BOOLEAN}

\* a flag that is not given keeps its default, the empty string
Init ==
    /\ \E r \in Requests :
        /\ "termination-policy" \notin r.flags => r.o.TerminationPolicy = ""
        /\ "components" \notin r.flags => r.o.ComponentsFilePath = <<>>
        /\ flags = r.flags
        /\ o = r.o
    /\ pc = "start"
    /\ componentByte = NoBytes
    /\ components = NilComponents
    /\ err = NoErr
    /\ obj = NoObj
    /\ c = NoCluster
    /\ cd = <<>>
    /\ calls = <<>>
    /\ stages = <<>>
    /\ hist = NoHist

Next ==
    \/ CheckRequiredFlags
    \/ CompleteLoad
    \/ CompleteNoSource
    \/ CompleteYAMLToJSON
    \/ CompleteUnmarshal
    \/ CompleteSetMonitor
    \/ CompleteSetBackup
    \/ CompleteCommit
    \/ ValidateStep
    \/ Materialize
    \/ PreCreateDisabled
    \/ PreCreateConvert
    \/ PreCreateGet
    \/ PreCreateSet
    \/ Submit

Spec == Init /\ [][Next]_vars

----------------------------------------------------------------------------
(* The claims *)

Range(s) == {s[i] : i \in 1..Len(s)}

IsPrefix(s, t) == Len(s) <= Len(t) /\ \A i \in 1..Len(s) : s[i] = t[i]

\* the templates of a component list, as <<component index, template index>>
TemplatesOf(comps) ==
    {<<i, j>> \in (1..Len(comps.items)) \X (1..(MaxTemplates + 1)) :
        j <= Len(comps.items[i].volumeClaimTemplates.items)}

TemplateAt(comps, ij) == comps.items[ij[1]].volumeClaimTemplates.items[ij[2]]

\* the backup type the looked-up job declares, "" when it declares none
FoundType == IF hist.reply.object.backupType = <<>> THEN "" ELSE hist.reply.object.backupType[1]

\* setBackup has been called on a non-nil list with a backup reference, and the
\* lookup answered with a job
LookedUpJob ==
    /\ pc \in {"returned", "panic"}
    /\ o.Backup # ""
    /\ ~hist.components0.isNil
    /\ hist.reply.err = NoErr

\* C1: when the looked-up backup job's type is anything but "snapshot" (a missing
\* type included), setBackup returns an error that names the type found, after
\* the one lookup, and the component list is what it was before the call.
C1_NonSnapshotRejected ==
    (LookedUpJob /\ FoundType # "snapshot") =>
        /\ pc = "returned"
        /\ err.kind = "fmt.Errorf"
        /\ Len(err.msg) > 1
        /\ err.msg[Len(err.msg) - 1] = FoundType
        /\ calls = <<"backupjobs">>
        /\ components = hist.components0

C1_Witness ==
    /\ LookedUpJob
    /\ FoundType = "full"
    /\ Len(hist.components0.items) > 1
    /\ \E ij \in TemplatesOf(hist.components0) : TemplateAt(hist.components0, ij).spec = "absent"

\* C2: after a successful setBackup for a job of type "snapshot", on a list whose
\* components all carry a volumeClaimTemplates list of maps, every template of
\* every component has spec.dataSource equal to the descriptor of the backup.
C2_EveryTemplateWired ==
    (/\ LookedUpJob
     /\ FoundType = "snapshot"
     /\ pc = "returned"
     /\ err = NoErr
     /\ \A i \in 1..Len(hist.components0.items) :
            hist.components0.items[i].volumeClaimTemplates.shape = "list"
     /\ \A ij \in TemplatesOf(hist.components0) : TemplateAt(hist.components0, ij).shape = "map")
    => \A ij \in TemplatesOf(components) :
            /\ TemplateAt(components, ij).spec = "map"
            /\ TemplateAt(components, ij).dataSource = <<DataSource(o.Backup)>>

\* C8: once setBackup has stopped without success (a lookup error, a type that is
\* not "snapshot", or a component whose volumeClaimTemplates is missing or no list
\* of maps), no template of any component carries the injected dataSource.
C8_NoPartialOverlay ==
    (pc \in {"returned", "panic"} /\ (err # NoErr \/ pc = "panic")) =>
        \A ij \in TemplatesOf(components) :
            TemplateAt(components, ij).dataSource # <<DataSource(o.Backup)>>

ValidatedNamedRequest ==
    /\ stages # <<>>
    /\ stages[Len(stages)] = "Validate"
    /\ o.Name # ""
    /\ Len(o.ComponentsFilePath) > 0

\* C3: on a request with a name and a components source, Validate passes exactly
\* when terminationPolicy is one of DoNotTerminate, Halt, Delete, WipeOut.
C3_PolicyEnumerated ==
    ValidatedNamedRequest => (err = NoErr <=> o.TerminationPolicy \in TerminationPolicies)

UserInputErrors == {MissingName, MissingTerminationPolicy, MissingComponents, RequiredFlagError}

Ended == pc \in {"done", "panic", "Submitted"}

\* C4, as claimed: in the run of a request with an empty termination policy no
\* remote lookup is performed at any point, and the run, when its source could be
\* read and parsed, ends in a user input error.
C4_NoLookupWithoutPolicy ==
    o.TerminationPolicy = "" =>
        /\ calls = <<>>
        /\ (Ended /\ "setMonitor" \in Range(stages)) => (pc = "done" /\ err \in UserInputErrors)

\* C4, amended: a request with an empty termination policy never gets past
\* Validate: its run ends in an error, nothing is materialized or submitted and
\* the cluster definition is never looked up. When the flag is not given, the run
\* ends at the required-flag check with no lookup at all; when it is given empty,
\* Complete runs first, so the only lookup possible is the one of the backup job
\* (for a request with a backup reference), and the run ends in Validate's error
\* when Complete returned none.
C4_EmptyPolicyStopsAtValidate ==
    o.TerminationPolicy = "" =>
        /\ pc \notin {"Materialize", "PreCreate", "PreCreate.Get", "PreCreate.Set",
                      "Submit", "Submitted"}
        /\ obj = NoObj
        /\ "clusterdefinitions" \notin Range(calls)
        /\ calls # <<>> => (calls = <<"backupjobs">> /\ o.Backup # ""
                             /\ "termination-policy" \in flags)
        /\ "termination-policy" \notin flags =>
                (pc \in {"start", "done"} /\ (pc = "done" => err = RequiredFlagError))
        /\ pc = "done" => err # NoErr
        /\ (pc = "done" /\ stages[Len(stages)] = "Validate") =>
                err \in {MissingName, MissingTerminationPolicy}
        /\ (Ended /\ "commit" \in Range(stages)) => stages[Len(stages)] = "Validate"

C4_Witness ==
    /\ o.TerminationPolicy = ""
    /\ pc = "done"
    /\ err = MissingTerminationPolicy
    /\ calls = <<"backupjobs">>

\* the two type names are equal when the letter case is ignored
SameTypeIgnoringCase(s, t) == s = t \/ {s, t} = {"t1", "T1"}

\* the entries of the fetched definition whose type name matches the component's
Matches(type) == {k \in 1..Len(cd) : SameTypeIgnoringCase(type, cd[k].typeName)}

LogNames(def) == [n \in 1..Len(def.logConfigs) |-> def.logConfigs[n].name]

\* PreCreate has returned nil with enableAllLogs set
PreCreateSucceeded == o.EnableAllLogs /\ pc = After("PreCreate") /\ err = NoErr

\* C5, as claimed: after a successful PreCreate with enableAllLogs, a component's
\* enabledLogs is the list of log names of every definition entry whose type
\* matches the component's, and its prior value when no entry matches.
C5_LogsOfEveryMatch ==
    PreCreateSucceeded =>
        /\ Len(obj.components) = Len(hist.obj0.components)
        /\ \A i \in 1..Len(obj.components) :
            /\ \A k \in Matches(hist.obj0.components[i].type) :
                    obj.components[i].enabledLogs = LogNames(cd[k])
            /\ Matches(hist.obj0.components[i].type) = {} =>
                    obj.components[i].enabledLogs = hist.obj0.components[i].enabledLogs

\* C5, amended: after a successful PreCreate with enableAllLogs, a component whose
\* type matches, ignoring letter case, some entry of the fetched definition has as
\* enabledLogs the log names, in the definition's order, of the last entry that
\* matches; a component that matches no entry keeps its enabledLogs.
C5_LogsOfLastMatch ==
    PreCreateSucceeded =>
        /\ Len(obj.components) = Len(hist.obj0.components)
        /\ \A i \in 1..Len(obj.components) :
            LET m == Matches(hist.obj0.components[i].type)
            IN  /\ obj.components[i].type = hist.obj0.components[i].type
                /\ obj.components[i].enabledLogs =
                        (IF m = {} THEN hist.obj0.components[i].enabledLogs
                         ELSE LogNames(cd[CHOOSE k \in m : \A l \in m : l <= k]))

C5_Witness ==
    /\ PreCreateSucceeded
    /\ \E i \in 1..Len(obj.components) :
        /\ obj.components[i].type = "T1"
        /\ hist.obj0.components[i].enabledLogs = <<"old">>
        /\ obj.components[i].enabledLogs = <<"error", "slow">>
        /\ \E k \in 1..Len(cd) : cd[k].typeName = "t1"
    /\ \E i \in 1..Len(obj.components) :
        /\ obj.components[i].type = "t3"
        /\ obj.components[i].enabledLogs = <<"old">>

\* C6: with enableAllLogs false, PreCreate returns nil, the document is what it
\* was, and no lookup is made; the cluster definition is looked up only when
\* enableAllLogs is true.
C6_DisabledIsNoOp ==
    /\ ~o.EnableAllLogs =>
        /\ obj = hist.obj0
        /\ calls = <<>>
        /\ pc \in {"PreCreate", After("PreCreate")}
        /\ err = NoErr
    /\ "clusterdefinitions" \in Range(calls) => o.EnableAllLogs

C6_Witness ==
    /\ ~o.EnableAllLogs
    /\ pc = After("PreCreate")
    /\ obj.unknownFields
    /\ \E i \in 1..Len(obj.components) : obj.components[i].enabledLogs = <<"old">>

\* C7: with enableAllLogs true, the document's content is what it was until
\* PreCreate has returned nil: it is unchanged while the lookup and the
\* conversions are under way, and unchanged when any of them has failed, in which
\* case PreCreate has returned the error.
C7_AllOrNothing ==
    /\ pc # After("PreCreate") => obj = hist.obj0
    /\ pc = "done" => err \in {ConvertFailed, GetFailed, EncodeFailed}
    /\ (pc = "done" /\ err = GetFailed) => calls = <<"clusterdefinitions">>

C7_Witness ==
    /\ o.EnableAllLogs
    /\ pc = "done"
    /\ err = EncodeFailed
    /\ obj = hist.obj0
    /\ c.components # hist.obj0.components

CompleteOrder == <<"load", "YAMLToJSON", "Unmarshal", "setMonitor", "setBackup", "commit">>

NoSourceOrder == <<"setMonitor", "setBackup", "commit">>

IsCompleteStage(s) == s \in Range(CompleteOrder)

\* the stage that ran last has failed
FailedAt(stage) == pc \in {"done", "panic"} /\ stages[Len(stages)] = stage

\* C10: Complete enters its stages in the order load, YAMLToJSON, Unmarshal,
\* setMonitor, setBackup, commit (the last three alone without a source), and
\* enters none after one that failed: a failed read leaves nothing parsed, nothing
\* overlaid and no lookup made; a failed parse leaves nothing overlaid and no
\* lookup made; a failed setBackup leaves o.Components unassigned, and its error
\* is the one Complete returns.
C10_CompleteFailsFast ==
    /\ IsPrefix(SelectSeq(stages, IsCompleteStage),
                IF Len(o.ComponentsFilePath) > 0 THEN CompleteOrder ELSE NoSourceOrder)
    /\ FailedAt("load") =>
        /\ err = ReadFailed(o.ComponentsFilePath)
        /\ componentByte = NoBytes
        /\ components = NilComponents
        /\ calls = <<>>
    /\ FailedAt("YAMLToJSON") =>
        /\ err.kind = "yaml.YAMLToJSON"
        /\ components = NilComponents
        /\ calls = <<>>
    /\ FailedAt("Unmarshal") =>
        /\ err.kind = "json.Unmarshal"
        /\ components \in {NilComponents, ComponentList(componentByte.items)}
        /\ calls = <<>>
    /\ FailedAt("setBackup") =>
        /\ calls = <<"backupjobs">>
        /\ pc = "done" =>
            err = (IF hist.reply.err # NoErr THEN hist.reply.err ELSE BackupTypeError(FoundType))
    /\ "commit" \notin Range(stages) => o.Components = NilComponents
    /\ "commit" \in Range(stages) => (~FailedAt("setBackup") /\ o.Components = components)

C10_Witness ==
    /\ FailedAt("setBackup")
    /\ pc = "done"
    /\ err = BackupTypeError("full")
    /\ Len(components.items) > 1
    /\ \A i \in 1..Len(components.items) : components.items[i].monitor = <<TRUE>>
    /\ o.Components = NilComponents

====
